---- MODULE Spec2Model ----
(***************************************************************************)
(* Model of packages/stryker/src/process/MutationTestExecutor.ts.          *)
(*                                                                         *)
(* run() subscribes the pipeline                                           *)
(*   zip(transpiledMutants, merge(recycled, sandboxes), createTuple)       *)
(*     |> map(earlyResult) |> flatMap(runInSandbox) |> tap(recycle)        *)
(*     |> map(result) |> tap(reportResult) |> toArray()                    *)
(*     |> tap(completeRecycle) |> tap(reportAll) |> toPromise              *)
(* and then disposes the sandbox pool.  Every action below is one task of  *)
(* the JavaScript event loop: an emission of one of the two source         *)
(* streams, or the settlement of one promise returned by runInSandbox,     *)
(* together with everything the operators do synchronously in that task.   *)
(***************************************************************************)
EXTENDS Naturals, Sequences, FiniteSets

\* Bounds of the model.
MaxMutants == 2
MaxSandboxes == 2
MaxTests == 2

VARIABLES
  nMutants,            \* allMutants.length, the argument of run
  nSandboxes,          \* number of sandboxes the pool's stream will emit
  subscribed,          \* 0: nothing, 1: transpiledMutants, 2: also merge(recycled, sandboxes)
  transpiled,          \* TranspiledMutants emitted so far; mutant identity = index
  mutantsComplete,     \* transpiledMutants has completed
  mutantBuffer,        \* zip's buffer of its first source (mutant ids)
  sandboxBuffer,       \* zip's buffer of its second source (sandbox ids)
  created,             \* sandboxes the pool's stream has emitted so far
  supplyLog,           \* every item merge(recycled, sandboxes) has yielded to zip
  zipCompleted,        \* zip has completed and unsubscribed from both sources
  pairs,               \* every tuple zip emitted, after map(earlyResult)
  active,              \* flatMap's unsettled inner promises (indexes of pairs)
  runMutantLog,        \* every call sandbox.runMutant(transpiledMutant)
  runResultLog,        \* what each settled runMutant call resolved with
  recycleLog,          \* every call recycle({sandbox, result})
  reported,            \* every call reporter.onMutantTested(result)
  results,             \* toArray's accumulator
  completeRecycleCalls,     \* calls of completeRecycle()
  recycleObserverCompletes, \* calls of recycleObserver.complete()
  allReported,         \* every call reporter.onAllMutantsTested(results)
  promise,             \* state of the promise runInsideSandboxes returned
  promiseValue,        \* the value it resolved with
  pc,                  \* position of run()
  disposeAllCalls,     \* calls of sandboxPool.disposeAll()
  returned             \* the value run() returned

vars == <<nMutants, nSandboxes, subscribed, transpiled, mutantsComplete, mutantBuffer,
          sandboxBuffer, created, supplyLog, zipCompleted, pairs, active, runMutantLog,
          recycleLog, reported, results, completeRecycleCalls, recycleObserverCompletes,
          allReported, promise, promiseValue, pc, disposeAllCalls, returned, runResultLog>>

\* JavaScript's null (no early result; runMutant resolving without a RunResult).
null == [null |-> TRUE]

RunStatus == {"Complete", "Error", "Timeout"}

TestStatus == {"Success", "Failed", "Skipped"}

\* mutant.selectedTests of the mutants submitted: none, or one test.
SelectedTests == {<<>>, <<"spec1">>}

\* What the transpiler stage attaches to a mutant: transpileResult.error and
\* changedAnyTranspiledFiles, next to mutant.selectedTests.
TranspiledMutants ==
  [error : BOOLEAN, selectedTests : SelectedTests, changedAnyTranspiledFiles : BOOLEAN]

\* RunResult.tests of the runs the sandboxes perform.
TestLists ==
  { <<>>,
    <<[name |-> "spec1", status |-> "Failed"]>>,
    <<[name |-> "spec1", status |-> "Skipped"], [name |-> "spec2", status |-> "Success"]>> }

\* What sandbox.runMutant may resolve with.
RunResults ==
  {null} \cup {[status |-> s, tests |-> ts] : s \in RunStatus, ts \in TestLists}

\* Every RunResult.tests of at most MaxTests tests.
AllTestLists ==
  UNION {[1..k -> [name : {"spec1", "spec2"}, status : TestStatus]] : k \in 0..MaxTests}

\* Every outcome of sandbox.runMutant with at most MaxTests tests.
AllRunResults ==
  {null} \cup {[status |-> s, tests |-> ts] : s \in RunStatus, ts \in AllTestLists}

\* TestableMutant.result(status, testNames)
MutantResult(mutant, status, testNames) ==
  [mutant |-> mutant, status |-> status, testNames |-> testNames]

\* earlyResult with the coverage check ahead of the transpile-error check.
earlyResult_CoverageFirst(transpiledMutant, mutant) ==
  IF Len(transpiledMutant.selectedTests) = 0
    THEN MutantResult(mutant, "NoCoverage", <<>>)
    ELSE IF transpiledMutant.error
      THEN MutantResult(mutant, "TranspileError", <<>>)
      ELSE IF ~transpiledMutant.changedAnyTranspiledFiles
        THEN MutantResult(mutant, "Survived", <<>>)
        ELSE null

\* earlyResult with the changed-files check ahead of the coverage check.
earlyResult_UnchangedFirst(transpiledMutant, mutant) ==
  IF transpiledMutant.error
    THEN MutantResult(mutant, "TranspileError", <<>>)
    ELSE IF ~transpiledMutant.changedAnyTranspiledFiles
      THEN MutantResult(mutant, "Survived", <<>>)
      ELSE IF Len(transpiledMutant.selectedTests) = 0
        THEN MutantResult(mutant, "NoCoverage", <<>>)
        ELSE null

\* earlyResult without the changed-files check.
earlyResult_NoUnchangedCheck(transpiledMutant, mutant) ==
  IF transpiledMutant.error
    THEN MutantResult(mutant, "TranspileError", <<>>)
    ELSE IF Len(transpiledMutant.selectedTests) = 0
      THEN MutantResult(mutant, "NoCoverage", <<>>)
      ELSE null

\* earlyResult: the third component of the tuple it returns.
earlyResult(transpiledMutant, mutant) ==
  IF transpiledMutant.error
    THEN MutantResult(mutant, "TranspileError", <<>>)
    ELSE IF Len(transpiledMutant.selectedTests) = 0
      THEN MutantResult(mutant, "NoCoverage", <<>>)
      ELSE IF ~transpiledMutant.changedAnyTranspiledFiles
        THEN MutantResult(mutant, "Survived", <<>>)
        ELSE null

RECURSIVE NotSkippedNames(_)
\* runResult.tests.filter(t => t.status !== Skipped).map(t => t.name)
NotSkippedNames(tests) ==
  IF tests = <<>>
    THEN <<>>
    ELSE IF Head(tests).status # "Skipped"
      THEN <<Head(tests).name>> \o NotSkippedNames(Tail(tests))
      ELSE NotSkippedNames(Tail(tests))

\* collectMutantResult without the filter on skipped tests.
collectMutantResult_KeepSkipped(mutant, runResult) ==
  IF runResult # null
    THEN LET status ==
               CASE runResult.status = "Timeout" -> "TimedOut"
                 [] runResult.status = "Error" -> "RuntimeError"
                 [] runResult.status = "Complete" ->
                      IF \E i \in 1..Len(runResult.tests) : runResult.tests[i].status = "Failed"
                        THEN "Killed"
                        ELSE "Survived"
                 [] OTHER -> "NoCoverage"
         IN MutantResult(mutant, status,
                         [i \in 1..Len(runResult.tests) |-> runResult.tests[i].name])
    ELSE MutantResult(mutant, "NoCoverage", <<>>)

\* collectMutantResult whose Timeout case lacks its break and falls through to
\* the Error case.
collectMutantResult_TimeoutFallsThrough(mutant, runResult) ==
  IF runResult # null
    THEN LET status ==
               CASE runResult.status = "Timeout" -> "RuntimeError"
                 [] runResult.status = "Error" -> "RuntimeError"
                 [] runResult.status = "Complete" ->
                      IF \E i \in 1..Len(runResult.tests) : runResult.tests[i].status = "Failed"
                        THEN "Killed"
                        ELSE "Survived"
                 [] OTHER -> "NoCoverage"
         IN MutantResult(mutant, status, NotSkippedNames(runResult.tests))
    ELSE MutantResult(mutant, "NoCoverage", <<>>)

\* collectMutantResult
collectMutantResult(mutant, runResult) ==
  IF runResult # null
    THEN LET status ==
               CASE runResult.status = "Timeout" -> "TimedOut"
                 [] runResult.status = "Error" -> "RuntimeError"
                 [] runResult.status = "Complete" ->
                      IF \E i \in 1..Len(runResult.tests) : runResult.tests[i].status = "Failed"
                        THEN "Killed"
                        ELSE "Survived"
                 [] OTHER -> "NoCoverage"
         IN MutantResult(mutant, status, NotSkippedNames(runResult.tests))
    ELSE MutantResult(mutant, "NoCoverage", <<>>)

\* run(allMutants) is called with mutants mutants and a pool of sandboxes sandboxes.
InitWith(mutants, sandboxes) ==
  /\ nMutants = mutants
  /\ nSandboxes = sandboxes
  /\ subscribed = 0
  /\ transpiled = <<>>
  /\ mutantsComplete = FALSE
  /\ mutantBuffer = <<>>
  /\ sandboxBuffer = <<>>
  /\ created = 0
  /\ supplyLog = <<>>
  /\ zipCompleted = FALSE
  /\ pairs = <<>>
  /\ active = {}
  /\ runMutantLog = <<>>
  /\ runResultLog = <<>>
  /\ recycleLog = <<>>
  /\ reported = <<>>
  /\ results = <<>>
  /\ completeRecycleCalls = 0
  /\ recycleObserverCompletes = 0
  /\ allReported = <<>>
  /\ promise = "pending"
  /\ promiseValue = <<>>
  /\ pc = "runInsideSandboxes"
  /\ disposeAllCalls = 0
  /\ returned = <<>>

Init == \E mutants \in 0..MaxMutants : \E sandboxes \in 0..MaxSandboxes :
          InitWith(mutants, sandboxes)

\* createTuple, then map(earlyResult): the tuple handed to flatMap(runInSandbox).
createTuple(mutant, sandbox, tms) ==
  [mutant |-> mutant, sandbox |-> sandbox, earlyResult |-> earlyResult(tms[mutant], mutant)]

\* checkIterators that leaves the paired sandbox in its buffer.
checkIterators_KeepSandbox(mutants, sandboxes, isComplete) ==
  IF mutants = <<>> \/ sandboxes = <<>>
    THEN [mutantBuffer |-> mutants, sandboxBuffer |-> sandboxes, args |-> <<>>,
          complete |-> FALSE]
    ELSE [mutantBuffer |-> Tail(mutants), sandboxBuffer |-> sandboxes,
          args |-> <<[mutant |-> Head(mutants), sandbox |-> Head(sandboxes)]>>,
          complete |-> (isComplete /\ Tail(mutants) = <<>>)]

\* checkIterators that completes on the first pairing after the mutant source
\* completed, whatever is left in the mutant buffer.
checkIterators_CompleteEarly(mutants, sandboxes, isComplete) ==
  IF mutants = <<>> \/ sandboxes = <<>>
    THEN [mutantBuffer |-> mutants, sandboxBuffer |-> sandboxes, args |-> <<>>,
          complete |-> FALSE]
    ELSE [mutantBuffer |-> Tail(mutants), sandboxBuffer |-> Tail(sandboxes),
          args |-> <<[mutant |-> Head(mutants), sandbox |-> Head(sandboxes)]>>,
          complete |-> isComplete]

\* checkIterators that pairs the mutant with the newest sandbox of the buffer.
checkIterators_NewestSandbox(mutants, sandboxes, isComplete) ==
  IF mutants = <<>> \/ sandboxes = <<>>
    THEN [mutantBuffer |-> mutants, sandboxBuffer |-> sandboxes, args |-> <<>>,
          complete |-> FALSE]
    ELSE [mutantBuffer |-> Tail(mutants),
          sandboxBuffer |-> SubSeq(sandboxes, 1, Len(sandboxes) - 1),
          args |-> <<[mutant |-> Head(mutants), sandbox |-> sandboxes[Len(sandboxes)]]>>,
          complete |-> (isComplete /\ Tail(mutants) = <<>>)]

\* zip's checkIterators, run after every push into one of its buffers: when both
\* buffers hold a value it shifts one from each and emits them; it completes when
\* the mutant source has completed and its buffer is drained.  (The merged supply
\* cannot complete before zip does: recycled completes only in completeRecycle.)
checkIterators(mutants, sandboxes, isComplete) ==
  IF mutants = <<>> \/ sandboxes = <<>>
    THEN [mutantBuffer |-> mutants, sandboxBuffer |-> sandboxes, args |-> <<>>,
          complete |-> FALSE]
    ELSE [mutantBuffer |-> Tail(mutants), sandboxBuffer |-> Tail(sandboxes),
          args |-> <<[mutant |-> Head(mutants), sandbox |-> Head(sandboxes)]>>,
          complete |-> (isComplete /\ Tail(mutants) = <<>>)]

\* runInSandbox that runs the mutant even when an early result exists.
runInSandbox_Always(tuple) == <<[sandbox |-> tuple.sandbox, mutant |-> tuple.mutant]>>

\* runInSandbox: the calls of sandbox.runMutant it makes for a tuple.
runInSandbox(tuple) ==
  IF tuple.earlyResult # null
    THEN <<>>
    ELSE <<[sandbox |-> tuple.sandbox, mutant |-> tuple.mutant]>>

\* recycle that hands the sandbox over twice.
recycle_Twice(tuple) == <<tuple.sandbox, tuple.sandbox>>

\* recycle that skips the sandboxes of early results.
recycle_OnlyExecuted(tuple) == IF tuple.earlyResult # null THEN <<>> ELSE <<tuple.sandbox>>

\* recycle that never hands the sandbox back.
recycle_Dropped(tuple) == <<>>

\* recycle: the sandboxes it hands to recycleObserver.next.
recycle(tuple) == <<tuple.sandbox>>

\* flatMap that completes with its source, without waiting for the inner promises.
flatMapComplete_NoWait(hasCompleted, unsettled) == hasCompleted

\* flatMap completes when its source (zip) has completed and no inner promise
\* is unsettled.
flatMapComplete(hasCompleted, unsettled) == hasCompleted /\ unsettled = {}

\* completeRecycle without its guard on recycleObserver.
completeRecycle_Unguarded(recycleObserverSet) == 1

\* completeRecycle: the number of recycleObserver.complete() calls it makes.
completeRecycle(recycleObserverSet) == IF recycleObserverSet THEN 1 ELSE 0

\* reportResult: the calls of reporter.onMutantTested after one more result.
reportResult(calls, mutantResult) == Append(calls, mutantResult)

\* toArray that puts each new result in front of its accumulator.
toArray_Prepend(accumulated, mutantResult) == <<mutantResult>> \o accumulated

\* toArray's accumulator after one more result.
toArray(accumulated, mutantResult) == Append(accumulated, mutantResult)

\* reportAll: the calls of reporter.onAllMutantsTested after one more collection.
reportAll(calls, mutantResults) == Append(calls, mutantResults)

\* The tail of the pipeline once flatMap completes: toArray emits, then
\* tap(completeRecycle), tap(reportAll), and toPromise resolves.
ToArray(hasCompleted, unsettled, all) ==
  IF flatMapComplete(hasCompleted, unsettled)
    THEN /\ completeRecycleCalls' = completeRecycleCalls + 1
         /\ recycleObserverCompletes' = recycleObserverCompletes + completeRecycle(subscribed = 2)
         /\ allReported' = reportAll(allReported, all)
         /\ promise' = "resolved"
         /\ promiseValue' = all
    ELSE UNCHANGED <<completeRecycleCalls, recycleObserverCompletes, allReported,
                     promise, promiseValue>>

\* zip after a push left its buffers as (mutants, sandboxes), and everything
\* downstream of it that runs synchronously: map(earlyResult), flatMap(runInSandbox).
\* settled: the inner promises that settle in this task; all: toArray's accumulator.
Zip(mutants, sandboxes, tms, settled, all) ==
  LET z == checkIterators(mutants, sandboxes, mutantsComplete)
      tuples == [i \in 1..Len(z.args) |-> createTuple(z.args[i].mutant, z.args[i].sandbox, tms)]
      started == {Len(pairs) + i : i \in 1..Len(tuples)}
      calls == IF tuples = <<>> THEN <<>> ELSE runInSandbox(tuples[1])
  IN /\ mutantBuffer' = z.mutantBuffer
     /\ sandboxBuffer' = z.sandboxBuffer
     /\ pairs' = pairs \o tuples
     /\ active' = (active \ settled) \cup started
     /\ runMutantLog' = runMutantLog \o calls
     /\ zipCompleted' = (zipCompleted \/ z.complete)
     /\ ToArray(zipCompleted', active', all)

\* zip subscribes its first source.
SubscribeMutants ==
  /\ subscribed = 0
  /\ subscribed' = 1
  /\ UNCHANGED <<runResultLog, nMutants, nSandboxes, transpiled, mutantsComplete, mutantBuffer,
                 sandboxBuffer, created, supplyLog, zipCompleted, pairs, active,
                 runMutantLog, recycleLog, reported, results, completeRecycleCalls,
                 recycleObserverCompletes, allReported, promise, promiseValue, pc,
                 disposeAllCalls, returned>>

\* zip subscribes merge(recycled, sandboxes): recycleObserver is assigned.
SubscribeSandboxes ==
  /\ subscribed = 1
  /\ subscribed' = 2
  /\ UNCHANGED <<runResultLog, nMutants, nSandboxes, transpiled, mutantsComplete, mutantBuffer,
                 sandboxBuffer, created, supplyLog, zipCompleted, pairs, active,
                 runMutantLog, recycleLog, reported, results, completeRecycleCalls,
                 recycleObserverCompletes, allReported, promise, promiseValue, pc,
                 disposeAllCalls, returned>>

\* transpiledMutants emits the next TranspiledMutant, one of tms.
MutantNextOf(tms) ==
  /\ subscribed >= 1
  /\ promise = "pending"
  /\ ~mutantsComplete
  /\ Len(transpiled) < nMutants
  /\ \E tm \in tms :
       /\ transpiled' = Append(transpiled, tm)
       /\ Zip(Append(mutantBuffer, Len(transpiled) + 1), sandboxBuffer, transpiled', {}, results)
  /\ UNCHANGED <<runResultLog, nMutants, nSandboxes, subscribed, mutantsComplete, created, supplyLog,
                 recycleLog, reported, results, pc, disposeAllCalls, returned>>

\* transpiledMutants emits the next TranspiledMutant.
MutantNext == MutantNextOf(TranspiledMutants)

\* transpiledMutants completes, after one item per input mutant.
MutantComplete ==
  /\ subscribed >= 1
  /\ promise = "pending"
  /\ ~mutantsComplete
  /\ Len(transpiled) = nMutants
  /\ mutantsComplete' = TRUE
  /\ zipCompleted' = (zipCompleted \/ mutantBuffer = <<>>)
  /\ ToArray(zipCompleted', active, results)
  /\ UNCHANGED <<runResultLog, nMutants, nSandboxes, subscribed, transpiled, mutantBuffer, sandboxBuffer,
                 created, supplyLog, pairs, active, runMutantLog, recycleLog, reported,
                 results, pc, disposeAllCalls, returned>>

\* The pool's stream emits a new sandbox.
SandboxNext ==
  /\ subscribed = 2
  /\ promise = "pending"
  /\ ~zipCompleted
  /\ created < nSandboxes
  /\ created' = created + 1
  /\ supplyLog' = Append(supplyLog, created + 1)
  /\ Zip(mutantBuffer, Append(sandboxBuffer, created + 1), transpiled, {}, results)
  /\ UNCHANGED <<runResultLog, nMutants, nSandboxes, subscribed, transpiled, mutantsComplete, recycleLog,
                 reported, results, pc, disposeAllCalls, returned>>

\* The promise of pair p resolves with result: tap(recycle) hands the sandbox to
\* recycleObserver.next, which feeds it back into the merged supply unless zip has
\* unsubscribed (zip may pair it at once); then map, tap(reportResult), toArray,
\* and the inner subscription completes.
Settle(p, result) ==
  LET next == recycle(pairs[p])
      fed == IF zipCompleted THEN <<>> ELSE next
  IN /\ recycleLog' = recycleLog \o [i \in 1..Len(next) |->
                                       [sandbox |-> next[i], mutant |-> result.mutant]]
     /\ supplyLog' = supplyLog \o fed
     /\ reported' = reportResult(reported, result)
     /\ results' = toArray(results, result)
     /\ IF zipCompleted
          THEN /\ active' = active \ {p}
               /\ ToArray(zipCompleted, active', results')
               /\ UNCHANGED <<mutantBuffer, sandboxBuffer, pairs, runMutantLog, zipCompleted>>
          ELSE Zip(mutantBuffer, sandboxBuffer \o fed, transpiled, {p}, results')
     /\ UNCHANGED <<nMutants, nSandboxes, subscribed, transpiled, mutantsComplete, created,
                    pc, disposeAllCalls, returned>>

\* Promise.resolve({sandbox, result: earlyResult}) is delivered.
EarlyResolves ==
  /\ promise = "pending"
  /\ \E p \in active :
       /\ pairs[p].earlyResult # null
       /\ Settle(p, pairs[p].earlyResult)
  /\ UNCHANGED runResultLog

\* sandbox.runMutant resolves with one of runResults.
RunMutantResolvesWith(runResults) ==
  /\ promise = "pending"
  /\ \E p \in active :
       /\ pairs[p].earlyResult = null
       /\ \E runResult \in runResults :
            /\ Settle(p, collectMutantResult(pairs[p].mutant, runResult))
            /\ runResultLog' = Append(runResultLog, [mutant |-> pairs[p].mutant,
                                                      runResult |-> runResult])

\* sandbox.runMutant resolves with a RunResult (or nothing).
RunMutantResolves == RunMutantResolvesWith(RunResults)

\* sandbox.runMutant rejects: the error passes every operator and rejects the promise.
\* The error unsubscribes flatMap's inner subscriptions, so a pairing that settles
\* afterwards is dropped (hence promise = "pending" in EarlyResolves and
\* RunMutantResolvesWith).
RunMutantRejects ==
  /\ promise = "pending"
  /\ \E p \in active : pairs[p].earlyResult = null
  /\ promise' = "rejected"
  /\ UNCHANGED <<runResultLog, nMutants, nSandboxes, subscribed, transpiled, mutantsComplete, mutantBuffer,
                 sandboxBuffer, created, supplyLog, zipCompleted, pairs, active, runMutantLog,
                 recycleLog, reported, results, completeRecycleCalls,
                 recycleObserverCompletes, allReported, promiseValue, pc, disposeAllCalls,
                 returned>>

\* run() that calls disposeAll without awaiting runInsideSandboxes.
DisposeAll_NotAwaited ==
  /\ pc = "runInsideSandboxes"
  /\ subscribed = 2
  /\ pc' = "disposeAll"
  /\ disposeAllCalls' = disposeAllCalls + 1
  /\ UNCHANGED <<runResultLog, nMutants, nSandboxes, subscribed, transpiled, mutantsComplete, mutantBuffer,
                 sandboxBuffer, created, supplyLog, zipCompleted, pairs, active, runMutantLog,
                 recycleLog, reported, results, completeRecycleCalls,
                 recycleObserverCompletes, allReported, promise, promiseValue, returned>>

\* run() that calls disposeAll in a finally block, also after a rejection.
DisposeAll_Finally ==
  /\ pc = "runInsideSandboxes"
  /\ subscribed = 2
  /\ promise \in {"resolved", "rejected"}
  /\ pc' = "disposeAll"
  /\ disposeAllCalls' = disposeAllCalls + 1
  /\ UNCHANGED <<runResultLog, nMutants, nSandboxes, subscribed, transpiled, mutantsComplete, mutantBuffer,
                 sandboxBuffer, created, supplyLog, zipCompleted, pairs, active, runMutantLog,
                 recycleLog, reported, results, completeRecycleCalls,
                 recycleObserverCompletes, allReported, promise, promiseValue, returned>>

\* run() resumes after `await this.runInsideSandboxes(...)` and calls disposeAll.
DisposeAll ==
  /\ pc = "runInsideSandboxes"
  /\ subscribed = 2
  /\ promise = "resolved"
  /\ pc' = "disposeAll"
  /\ disposeAllCalls' = disposeAllCalls + 1
  /\ UNCHANGED <<runResultLog, nMutants, nSandboxes, subscribed, transpiled, mutantsComplete, mutantBuffer,
                 sandboxBuffer, created, supplyLog, zipCompleted, pairs, active, runMutantLog,
                 recycleLog, reported, results, completeRecycleCalls,
                 recycleObserverCompletes, allReported, promise, promiseValue, returned>>

\* run() resumes after `await sandboxPool.disposeAll()` and returns result.
Return ==
  /\ pc = "disposeAll"
  /\ pc' = "returned"
  /\ returned' = promiseValue
  /\ UNCHANGED <<runResultLog, nMutants, nSandboxes, subscribed, transpiled, mutantsComplete, mutantBuffer,
                 sandboxBuffer, created, supplyLog, zipCompleted, pairs, active, runMutantLog,
                 recycleLog, reported, results, completeRecycleCalls,
                 recycleObserverCompletes, allReported, promise, promiseValue,
                 disposeAllCalls>>

\* The rejection surfaces at `await this.runInsideSandboxes(...)`: run() throws.
Throw ==
  /\ pc = "runInsideSandboxes"
  /\ subscribed = 2
  /\ promise = "rejected"
  /\ pc' = "threw"
  /\ UNCHANGED <<runResultLog, nMutants, nSandboxes, subscribed, transpiled, mutantsComplete, mutantBuffer,
                 sandboxBuffer, created, supplyLog, zipCompleted, pairs, active, runMutantLog,
                 recycleLog, reported, results, completeRecycleCalls,
                 recycleObserverCompletes, allReported, promise, promiseValue,
                 disposeAllCalls, returned>>

Next ==
  \/ SubscribeMutants
  \/ SubscribeSandboxes
  \/ MutantNext
  \/ MutantComplete
  \/ SandboxNext
  \/ EarlyResolves
  \/ RunMutantResolves
  \/ RunMutantRejects
  \/ DisposeAll
  \/ Return
  \/ Throw

Spec == Init /\ [][Next]_vars

TypeOK ==
  /\ nMutants \in 0..MaxMutants
  /\ subscribed \in 0..2
  /\ Len(transpiled) <= nMutants
  /\ created <= nSandboxes
  /\ active \subseteq 1..Len(pairs)
  /\ promise \in {"pending", "resolved", "rejected"}
  /\ pc \in {"runInsideSandboxes", "disposeAll", "returned", "threw"}
  /\ ~(mutantBuffer # <<>> /\ sandboxBuffer # <<>>)

\* The pipeline under the hypotheses of the termination claim: every execution
\* resolves, and every task that is ready is eventually run by the event loop.
LiveNext ==
  \/ SubscribeMutants
  \/ SubscribeSandboxes
  \/ MutantNext
  \/ MutantComplete
  \/ SandboxNext
  \/ EarlyResolves
  \/ RunMutantResolves
  \/ DisposeAll
  \/ Return

Fairness ==
  /\ WF_vars(SubscribeMutants)
  /\ WF_vars(SubscribeSandboxes)
  /\ WF_vars(MutantNext)
  /\ WF_vars(MutantComplete)
  /\ WF_vars(SandboxNext)
  /\ WF_vars(EarlyResolves)
  /\ WF_vars(RunMutantResolves)
  /\ WF_vars(DisposeAll)
  /\ WF_vars(Return)

LiveSpec == Init /\ [][LiveNext]_vars /\ Fairness

\* One mutant and one sandbox, with every run outcome of at most MaxTests tests:
\* the pipeline as the harness of collectMutantResult.
ClassifierInit == InitWith(1, 1)

ClassifierNext ==
  \/ SubscribeMutants
  \/ SubscribeSandboxes
  \/ MutantNext
  \/ MutantComplete
  \/ SandboxNext
  \/ EarlyResolves
  \/ RunMutantResolvesWith(AllRunResults)
  \/ RunMutantRejects
  \/ DisposeAll
  \/ Return
  \/ Throw

ClassifierSpec == ClassifierInit /\ [][ClassifierNext]_vars

\* The mutants that need execution.
ExecutedMutants ==
  {tm \in TranspiledMutants :
     ~tm.error /\ tm.selectedTests # <<>> /\ tm.changedAnyTranspiledFiles}

\* A run in which the mutant's test fails.
KillingRuns ==
  {[status |-> "Complete", tests |-> <<[name |-> "spec1", status |-> "Failed"]>>]}

\* Five mutants that all need execution, a pool of two sandboxes, executions
\* that all resolve, and an event loop that runs every task that is ready.
ScenarioInit == InitWith(5, 2)

ScenarioNext ==
  \/ SubscribeMutants
  \/ SubscribeSandboxes
  \/ MutantNextOf(ExecutedMutants)
  \/ MutantComplete
  \/ SandboxNext
  \/ RunMutantResolvesWith(KillingRuns)
  \/ DisposeAll
  \/ Return

ScenarioFairness ==
  /\ WF_vars(SubscribeMutants)
  /\ WF_vars(SubscribeSandboxes)
  /\ WF_vars(MutantNextOf(ExecutedMutants))
  /\ WF_vars(MutantComplete)
  /\ WF_vars(SandboxNext)
  /\ WF_vars(RunMutantResolvesWith(KillingRuns))
  /\ WF_vars(DisposeAll)
  /\ WF_vars(Return)

ScenarioSpec == ScenarioInit /\ [][ScenarioNext]_vars /\ ScenarioFairness

(***************************************************************************)
(* Vocabulary of the claims.                                               *)
(***************************************************************************)

\* The mutants for which run() has a verdict in sequence rs.
Verdicts(rs, m) == {i \in 1..Len(rs) : rs[i].mutant = m}

\* No early rule applies to emitted mutant m: its transform succeeded, it has
\* selected tests and a transpiled file changed.
NeedsExecution(m) ==
  /\ ~transpiled[m].error
  /\ transpiled[m].selectedTests # <<>>
  /\ transpiled[m].changedAnyTranspiledFiles

\* The calls of sandbox.runMutant made for mutant m.
RunMutantCalls(m) == {i \in 1..Len(runMutantLog) : runMutantLog[i].mutant = m}

\* The calls of recycle made for pairing p.
RecycleCalls(p) ==
  {i \in 1..Len(recycleLog) : /\ recycleLog[i].mutant = pairs[p].mutant
                              /\ recycleLog[i].sandbox = pairs[p].sandbox}

\* C1: the collection run resolves with, passes to onAllMutantsTested and returns
\* holds exactly one verdict per submitted mutant: as many verdicts as mutants,
\* none twice, none missing.
C1_OneVerdictPerMutant ==
  /\ promise = "resolved" =>
       /\ Len(promiseValue) = nMutants
       /\ \A m \in 1..nMutants : Cardinality(Verdicts(promiseValue, m)) = 1
       /\ allReported = <<promiseValue>>
  /\ pc = "returned" =>
       /\ Len(returned) = nMutants
       /\ \A m \in 1..nMutants : Cardinality(Verdicts(returned, m)) = 1
       /\ allReported = <<returned>>

C1_Witness ==
  /\ pc = "returned"
  /\ nMutants = 2
  /\ Len(returned) = 2
  /\ returned[1].mutant = 2

\* C2 (final state): every mutant was paired, completeRecycle ran, the final
\* collection was delivered and run returned it.
C2_Delivered ==
  /\ pc = "returned"
  /\ mutantsComplete
  /\ Len(pairs) = nMutants
  /\ active = {}
  /\ completeRecycleCalls = 1
  /\ allReported = <<returned>>
  /\ Len(returned) = nMutants

C3_InFlightBounded ==
  /\ Cardinality(active) <= created
  /\ Len(pairs) <= Len(recycleLog) + created

C3_Witness ==
  /\ Cardinality(active) = 2
  /\ created = 2
  /\ Len(runMutantLog) = 2

\* C4: a sandbox is never held by two pairings at once: two unsettled pairings
\* hold different sandboxes, and a sandbox waiting in the supply is held by none.
C4_SandboxExclusive ==
  /\ \A p \in active : \A q \in active : p # q => pairs[p].sandbox # pairs[q].sandbox
  /\ \A p \in active : \A i \in 1..Len(sandboxBuffer) : sandboxBuffer[i] # pairs[p].sandbox
  /\ \A i \in 1..Len(sandboxBuffer) : \A j \in 1..Len(sandboxBuffer) :
       i # j => sandboxBuffer[i] # sandboxBuffer[j]

C4_Witness ==
  /\ Len(pairs) = 2
  /\ pairs[1].sandbox = pairs[2].sandbox
  /\ active = {2}
  /\ pairs[2].earlyResult = null

\* C5: a sandbox is recycled exactly once per pairing, on either path: never
\* twice, never while its pairing is unsettled, and when the run completes every
\* pairing has been recycled once (recycle events = pairings).
C5_RecycledOncePerPairing ==
  /\ \A p \in 1..Len(pairs) :
       Cardinality(RecycleCalls(p)) = IF p \in active THEN 0 ELSE 1
  /\ Len(recycleLog) <= Len(pairs)
  /\ promise = "resolved" =>
       /\ Len(recycleLog) = Len(pairs)
       /\ \A p \in 1..Len(pairs) : Cardinality(RecycleCalls(p)) = 1

C5_Witness ==
  /\ promise = "resolved"
  /\ Len(pairs) = 2
  /\ pairs[1].earlyResult # null
  /\ pairs[2].earlyResult = null
  /\ Len(recycleLog) = 2

\* C6: completeRecycle never runs while the mutant stream still has unpaired
\* mutants or a pairing has not recycled its sandbox: once it has run, the stream
\* has completed, every mutant is paired and every pairing is recycled.
C6_NoPrematureClose ==
  completeRecycleCalls + recycleObserverCompletes > 0 =>
    /\ mutantsComplete
    /\ mutantBuffer = <<>>
    /\ Len(pairs) = nMutants
    /\ active = {}
    /\ \A p \in 1..Len(pairs) : Cardinality(RecycleCalls(p)) = 1

C6_Witness ==
  /\ completeRecycleCalls = 1
  /\ recycleObserverCompletes = 1
  /\ Len(pairs) = 2
  /\ Len(recycleLog) = 2

\* The verdict the ordered policy gives emitted mutant m without execution, or
\* null when execution is required.
EarlyVerdict(m) ==
  IF transpiled[m].error
    THEN "TranspileError"
    ELSE IF transpiled[m].selectedTests = <<>>
      THEN "NoCoverage"
      ELSE IF ~transpiled[m].changedAnyTranspiledFiles THEN "Survived" ELSE "null"

\* C7: the early classification is the ordered first-match policy: transform
\* failed gives TranspileError; otherwise no selected tests gives NoCoverage;
\* otherwise no changed file gives Survived, each with an empty test list;
\* otherwise there is no early verdict and the mutant is run in its sandbox.
C7_OrderedPolicy ==
  /\ \A p \in 1..Len(pairs) :
       LET m == pairs[p].mutant
       IN IF EarlyVerdict(m) = "null"
            THEN /\ pairs[p].earlyResult = null
                 /\ \E i \in RunMutantCalls(m) : runMutantLog[i].sandbox = pairs[p].sandbox
            ELSE pairs[p].earlyResult =
                   [mutant |-> m, status |-> EarlyVerdict(m), testNames |-> <<>>]
  /\ \A i \in 1..Len(results) :
       EarlyVerdict(results[i].mutant) # "null" =>
         /\ results[i].status = EarlyVerdict(results[i].mutant)
         /\ results[i].testNames = <<>>
  /\ \A i \in 1..Len(results) :
       transpiled[results[i].mutant].error => results[i].status = "TranspileError"

C7_Witness ==
  /\ Len(results) = 2
  /\ results[1].status = "TranspileError"
  /\ transpiled[results[1].mutant].selectedTests = <<>>
  /\ results[2].status = "Killed"

\* C8 as claimed: a mutant without selected tests always yields NoCoverage,
\* whatever its transform reported, and is never run in a sandbox.
C8_Original ==
  \A i \in 1..Len(results) :
    transpiled[results[i].mutant].selectedTests = <<>> =>
      /\ results[i].status = "NoCoverage"
      /\ RunMutantCalls(results[i].mutant) = {}

\* C8 (amended): a mutant without selected tests whose transform did not fail
\* yields NoCoverage with an empty test list, whether or not a transpiled file
\* changed; one whose transform failed yields TranspileError; in both cases it is
\* never run in a sandbox.
C8_NoCoverageUnlessTranspileError ==
  /\ \A i \in 1..Len(results) :
       LET tm == transpiled[results[i].mutant]
       IN tm.selectedTests = <<>> =>
            /\ results[i].status = IF tm.error THEN "TranspileError" ELSE "NoCoverage"
            /\ results[i].testNames = <<>>
  /\ \A m \in 1..Len(transpiled) :
       transpiled[m].selectedTests = <<>> => RunMutantCalls(m) = {}

C8_Witness ==
  /\ Len(results) = 2
  /\ \A i \in 1..2 : transpiled[results[i].mutant].selectedTests = <<>>
  /\ results[1].status = "NoCoverage"
  /\ ~transpiled[results[1].mutant].changedAnyTranspiledFiles
  /\ results[2].status = "TranspileError"

\* C9 as claimed: a mutant whose transform succeeded without changing a file
\* always yields Survived, whatever its selected tests, and is never run.
C9_Original ==
  \A i \in 1..Len(results) :
    LET tm == transpiled[results[i].mutant]
    IN (~tm.error /\ ~tm.changedAnyTranspiledFiles) =>
         /\ results[i].status = "Survived"
         /\ RunMutantCalls(results[i].mutant) = {}

\* C9 (amended): a mutant whose transform succeeded without changing a file yields
\* Survived with an empty test list when it has selected tests, and NoCoverage
\* when it has none; in both cases it is never run in a sandbox.
C9_UnchangedSurvivesIfCovered ==
  /\ \A i \in 1..Len(results) :
       LET tm == transpiled[results[i].mutant]
       IN (~tm.error /\ ~tm.changedAnyTranspiledFiles) =>
            /\ results[i].status = IF tm.selectedTests = <<>> THEN "NoCoverage" ELSE "Survived"
            /\ results[i].testNames = <<>>
  /\ \A m \in 1..Len(transpiled) :
       (~transpiled[m].error /\ ~transpiled[m].changedAnyTranspiledFiles) =>
         RunMutantCalls(m) = {}

C9_Witness ==
  /\ Len(results) = 2
  /\ \A i \in 1..2 : /\ ~transpiled[results[i].mutant].error
                     /\ ~transpiled[results[i].mutant].changedAnyTranspiledFiles
  /\ results[1].status = "Survived"
  /\ results[2].status = "NoCoverage"

\* C10: sandbox.runMutant is invoked at most once per mutant and only for mutants
\* without an early verdict, in the sandbox of their pairing; when the run
\* completes it has been invoked exactly once for each such mutant, so the number
\* of invocations is the number of mutants that need execution.
C10_RunMutantOncePerExecuted ==
  /\ \A m \in 1..Len(transpiled) :
       Cardinality(RunMutantCalls(m)) <= IF NeedsExecution(m) THEN 1 ELSE 0
  /\ \A i \in 1..Len(runMutantLog) :
       \E p \in 1..Len(pairs) : /\ pairs[p].mutant = runMutantLog[i].mutant
                                /\ pairs[p].sandbox = runMutantLog[i].sandbox
  /\ promise = "resolved" =>
       /\ \A m \in 1..nMutants :
            Cardinality(RunMutantCalls(m)) = IF NeedsExecution(m) THEN 1 ELSE 0
       /\ Len(runMutantLog) = Cardinality({m \in 1..nMutants : NeedsExecution(m)})

C10_Witness ==
  /\ promise = "resolved"
  /\ nMutants = 2
  /\ Len(runMutantLog) = 1
  /\ \E i \in 1..2 : results[i].status = "NoCoverage" /\ ~NeedsExecution(results[i].mutant)
  /\ \E i \in 1..2 : results[i].status = "Killed"

\* The verdict delivered for mutant m (there is one once its promise settled).
VerdictOf(m) == results[CHOOSE i \in 1..Len(results) : results[i].mutant = m]

\* The positions of the tests of a run that were not skipped.
Exercised(tests) == {i \in 1..Len(tests) : tests[i].status # "Skipped"}

\* names lists the tests of Exercised(tests) by name, in their order in tests.
ListsExercised(names, tests) ==
  /\ Len(names) = Cardinality(Exercised(tests))
  /\ \A i \in Exercised(tests) :
       names[Cardinality({j \in Exercised(tests) : j <= i})] = tests[i].name

\* C11: the verdict of an executed mutant is a function of its run outcome:
\* Timeout gives TimedOut, Error gives RuntimeError, Complete gives Killed when
\* some test failed and Survived otherwise; its test list is the names of the
\* tests that were not skipped, in their original order.
C11_VerdictOfRunOutcome ==
  \A k \in 1..Len(runResultLog) :
    LET rr == runResultLog[k].runResult
        m == runResultLog[k].mutant
    IN rr # null =>
         /\ Cardinality(Verdicts(results, m)) = 1
         /\ VerdictOf(m).status =
              CASE rr.status = "Timeout" -> "TimedOut"
                [] rr.status = "Error" -> "RuntimeError"
                [] rr.status = "Complete" /\ (\E i \in 1..Len(rr.tests) : rr.tests[i].status = "Failed")
                     -> "Killed"
                [] OTHER -> "Survived"
         /\ ListsExercised(VerdictOf(m).testNames, rr.tests)

C11_Witness ==
  /\ Len(runResultLog) = 1
  /\ runResultLog[1].runResult # null
  /\ runResultLog[1].runResult.status = "Complete"
  /\ runResultLog[1].runResult.tests =
       <<[name |-> "spec2", status |-> "Skipped"], [name |-> "spec1", status |-> "Success"]>>
  /\ results = <<[mutant |-> 1, status |-> "Survived", testNames |-> <<"spec1">>]>>

\* C14 as claimed: when sandbox.runMutant resolves without a RunResult for a
\* mutant that needs execution, no verdict is produced for the mutant and the
\* run is aborted with an error.
C14_Original ==
  \A k \in 1..Len(runResultLog) :
    runResultLog[k].runResult = null =>
      /\ Verdicts(results, runResultLog[k].mutant) = {}
      /\ Verdicts(reported, runResultLog[k].mutant) = {}
      /\ promise = "rejected"

\* C19 as claimed: a run that reports a timeout gives TimedOut with an empty test
\* list, whatever per-test outcomes it carries.
C19_Original ==
  \A k \in 1..Len(runResultLog) :
    LET rr == runResultLog[k].runResult
    IN (rr # null /\ rr.status = "Timeout") =>
         /\ VerdictOf(runResultLog[k].mutant).status = "TimedOut"
         /\ VerdictOf(runResultLog[k].mutant).testNames = <<>>

\* C19 (amended): a run that reports a timeout gives TimedOut, and its test list
\* is the names of the tests of the outcome that were not skipped, in order: it
\* is empty exactly when the outcome carries no test that was not skipped.
C19_TimedOutKeepsExercisedTests ==
  \A k \in 1..Len(runResultLog) :
    LET rr == runResultLog[k].runResult
        verdict == VerdictOf(runResultLog[k].mutant)
    IN (rr # null /\ rr.status = "Timeout") =>
         /\ verdict.status = "TimedOut"
         /\ ListsExercised(verdict.testNames, rr.tests)
         /\ (verdict.testNames = <<>>) = (Exercised(rr.tests) = {})

C19_Witness ==
  /\ Len(runResultLog) = 1
  /\ runResultLog[1].runResult # null
  /\ runResultLog[1].runResult.status = "Timeout"
  /\ runResultLog[1].runResult.tests = <<[name |-> "spec1", status |-> "Skipped"]>>
  /\ results = <<[mutant |-> 1, status |-> "TimedOut", testNames |-> <<>>]>>

\* C12: onMutantTested is called once per mutant, when its verdict completes;
\* onAllMutantsTested is called once, after the last onMutantTested call, with
\* the verdicts in the order they were passed to onMutantTested (completion
\* order); run resolves with and returns that collection.
C12_ReporterCalls ==
  /\ \A p \in 1..Len(pairs) :
       Cardinality(Verdicts(reported, pairs[p].mutant)) = IF p \in active THEN 0 ELSE 1
  /\ Len(reported) = Len(recycleLog)
  /\ \A i \in 1..Len(reported) : reported[i].mutant = recycleLog[i].mutant
  /\ Len(allReported) = IF promise = "resolved" THEN 1 ELSE 0
  /\ promise = "resolved" =>
       /\ allReported[1] = reported
       /\ Len(reported) = nMutants
       /\ promiseValue = reported
  /\ pc = "returned" => returned = reported

C12_Witness ==
  /\ pc = "returned"
  /\ Len(reported) = 2
  /\ reported[1].mutant = 2
  /\ reported[2].mutant = 1
  /\ allReported = <<returned>>

\* C13 as claimed: when the pool supplies no sandbox and there are mutants, the
\* run does not wait indefinitely: once no task is left to run, run has thrown.
C13_Original ==
  (nSandboxes = 0 /\ nMutants >= 1 /\ ~ENABLED Next) => pc = "threw"

\* C15: sandboxPool.disposeAll is invoked only after the pipeline has finished:
\* when it is invoked every mutant has a verdict, onAllMutantsTested has been
\* delivered and no execution is in flight; a run whose pipeline finished and
\* that has nothing left to do has invoked it exactly once.
C15_DisposeAfterPipeline ==
  /\ disposeAllCalls = IF pc \in {"disposeAll", "returned"} THEN 1 ELSE 0
  /\ disposeAllCalls >= 1 =>
       /\ promise = "resolved"
       /\ \A m \in 1..nMutants : Cardinality(Verdicts(results, m)) = 1
       /\ allReported = <<results>>
       /\ active = {}
       /\ Len(runResultLog) = Len(runMutantLog)
  /\ (promise = "resolved" /\ ~ENABLED Next) => (pc = "returned" /\ disposeAllCalls = 1)

C15_Witness ==
  /\ pc = "disposeAll"
  /\ disposeAllCalls = 1
  /\ Len(runMutantLog) = 2
  /\ Len(results) = 2

\* C16 as claimed: in every run that completes, the recycler has been closed
\* (recycleObserver.complete()) exactly once.
C16_Original == promise = "resolved" => recycleObserverCompletes = 1

\* C16 (amended): in every run that completes, completeRecycle is invoked exactly
\* once; it closes the recycler exactly once when the recycle feedback supply was
\* subscribed by then, and not at all otherwise, which happens only when an empty
\* mutant stream completes before that subscription.
C16_ClosedOnceIfSubscribed ==
  /\ [](/\ recycleObserverCompletes <= completeRecycleCalls
        /\ completeRecycleCalls = IF promise = "resolved" THEN 1 ELSE 0
        /\ (promise = "resolved" /\ recycleObserverCompletes = 0) =>
             (nMutants = 0 /\ pairs = <<>> /\ supplyLog = <<>>)
        /\ (promise = "resolved" /\ nMutants >= 1) => recycleObserverCompletes = 1)
  /\ [][(promise = "pending" /\ promise' = "resolved") =>
          recycleObserverCompletes' = IF subscribed = 2 THEN 1 ELSE 0]_vars

C16_Witness ==
  /\ pc = "returned"
  /\ nMutants = 0
  /\ completeRecycleCalls = 1
  /\ recycleObserverCompletes = 0

\* C17: pairing is in strict index correspondence: the Nth mutant emitted is
\* paired with the Nth item of the merged supply; what is not yet paired waits in
\* zip's buffers in order; no mutant is classified or run before it is paired, so
\* a statically decided mutant has no verdict until a sandbox is there for it,
\* and its pairing holds that sandbox until it is recycled.
C17_IndexCorrespondence ==
  /\ Len(pairs) <= Len(supplyLog)
  /\ Len(pairs) <= Len(transpiled)
  /\ \A p \in 1..Len(pairs) : pairs[p].mutant = p /\ pairs[p].sandbox = supplyLog[p]
  /\ mutantBuffer = [i \in 1..(Len(transpiled) - Len(pairs)) |-> Len(pairs) + i]
  /\ sandboxBuffer = [i \in 1..(Len(supplyLog) - Len(pairs)) |-> supplyLog[Len(pairs) + i]]
  /\ \A i \in 1..Len(results) : results[i].mutant <= Len(pairs)
  /\ \A i \in 1..Len(reported) : reported[i].mutant <= Len(pairs)
  /\ \A i \in 1..Len(runMutantLog) : runMutantLog[i].mutant <= Len(pairs)
  /\ \A p \in active :
       /\ Verdicts(results, pairs[p].mutant) = {}
       /\ \A i \in 1..Len(sandboxBuffer) : sandboxBuffer[i] # pairs[p].sandbox
       /\ \A q \in active : q # p => pairs[q].sandbox # pairs[p].sandbox

C17_Witness ==
  /\ nSandboxes = 1
  /\ active = {1}
  /\ pairs[1].earlyResult # null
  /\ mutantBuffer = <<2>>
  /\ transpiled[2].error
  /\ results = <<>>

\* The number of times sandbox s has been recycled.
TimesRecycled(s) == Cardinality({i \in 1..Len(recycleLog) : recycleLog[i].sandbox = s})

\* C18 as claimed: whenever the run of the five mutants has returned, all five
\* are classified and each of the two sandboxes was recycled at least twice.
C18_Original ==
  pc = "returned" =>
    /\ Len(returned) = 5
    /\ \A s \in 1..2 : TimesRecycled(s) >= 2

\* C18 (final state): all five mutants are classified, the sandboxes were
\* recycled five times in all, and one of them at least three times.
C18_Done ==
  /\ Len(returned) = 5
  /\ \A m \in 1..5 : Cardinality(Verdicts(returned, m)) = 1
  /\ Len(recycleLog) = 5
  /\ TimesRecycled(1) + TimesRecycled(2) = 5
  /\ \E s \in 1..2 : TimesRecycled(s) >= 3

\* C18 (amended): with five mutants that need execution and a pool of two
\* sandboxes, in every interleaving at most two executions are in flight, the
\* run eventually returns, and then all five mutants are classified and the
\* sandboxes were recycled five times in all, one of them at least three times;
\* the other may have been recycled once or not at all.
C18_AllClassifiedWithReuse ==
  /\ [](Cardinality(active) <= 2)
  /\ [](pc = "returned" => C18_Done)
  /\ <>(pc = "returned")

C18_Witness ==
  /\ pc = "returned"
  /\ C18_Done
  /\ TimesRecycled(1) = 4
  /\ TimesRecycled(2) = 1

\* C20: once an execution has rejected, run's promise is rejected and stays so:
\* the sandbox of the rejected pairing is never recycled, onAllMutantsTested is
\* never called, the recycler is never closed, disposeAll is never invoked and
\* control never returns; the rejected pairing and the pairings in flight get
\* no verdict, no report and no recycle.
C20_RejectionAborts ==
  promise = "rejected" =>
    /\ \E p \in active : pairs[p].earlyResult = null
    /\ pc \in {"runInsideSandboxes", "threw"}
    /\ allReported = <<>>
    /\ completeRecycleCalls = 0
    /\ recycleObserverCompletes = 0
    /\ disposeAllCalls = 0
    /\ returned = <<>>
    /\ ~ENABLED RunMutantResolves
    /\ ~ENABLED EarlyResolves
    /\ ~ENABLED DisposeAll
    /\ \A p \in active :
         /\ RecycleCalls(p) = {}
         /\ Verdicts(reported, pairs[p].mutant) = {}
         /\ Verdicts(results, pairs[p].mutant) = {}

\* run has thrown while another pairing was still in flight.
C20_Witness ==
  /\ promise = "rejected"
  /\ pc = "threw"
  /\ Cardinality(active) = 2

====
